---- MODULE Spec2Model ----
(***************************************************************************)
(* Model of cstore's store selection (components/store/store.go) and of    *)
(* the Harbor adapter (components/store/harbor_store.go): Pre, Push, Pull  *)
(* and Purge against a remote shipment/environment/container key store.    *)
(***************************************************************************)
EXTENDS Integers, Sequences, FiniteSets, TLC

\* ------------------------------------------------------------------ bounds
MaxKeys == 2
MaxVals == 2
MaxTime == 2
MaxCalls == 2

KeyNames == <<"a", "b", "c", "d">>
ValNames == <<"1", "2", "3", "4">>
Names == {KeyNames[i] : i \in 1..MaxKeys}
Vals == {ValNames[i] : i \in 1..MaxVals}
Times == 1..MaxTime

\* --------------------------------------------------------------- constants
shipURL == "http://shipit.services.dmtio.net"
tokenToken == "HARBOR_TOKEN"
userToken == "HARBOR_USER"
passToken == "HARBOR_PASS"
shipmentToken == "HARBOR_SHIPMENT"
containerToken == "HARBOR_CONTAINER"
envToken == "HARBOR_ENV"
modifiedToken == "CSTORE_MODIFIED"
envTypeBasic == "basic"
envTypeDiscover == "discover"
envTypeHidden == "hidden"

\* The generic "plain env var" marker and the ownership prefix of file.Data
\* entries (spec 4.2 step 2, spec 8 "ENV_FOO"); their source file is not in src/.
envVarType == "ENV"
addEnvVarPrefix(key) == "ENV_" \o key

Nil == "nil"
ErrStoreNotFound == "store not found"
ErrHTTP == "http status"
NoStore == "<nil>"
NoTime == 0

\* ----------------------------------------------------------------- helpers
EmptyMap == [k \in {} |-> ""]
Put(m, k, v) == [x \in DOMAIN m \cup {k} |-> IF x = k THEN v ELSE m[x]]
Drop(m, k) == [x \in DOMAIN m \ {k} |-> m[x]]
Range(s) == {s[i] : i \in DOMAIN s}
\* The orders in which a Go map range may visit the keys of S.
Orders(S) == {o \in [1..Cardinality(S) -> S] : \A i, j \in 1..Cardinality(S) : i # j => o[i] # o[j]}

VARIABLES stores, fileStore, fileType, fileData, vault, session, remote, ret, log, left

vars == <<stores, fileStore, fileType, fileData, vault, session, remote, ret, log, left>>

\* ------------------------------------------------------------ remote backend
Req(m, url, k, v, t, ok) == [m |-> m, url |-> url, k |-> k, v |-> v, t |-> t, ok |-> ok]

buildURL(shipment) ==
  shipURL \o "/v1/shipment/" \o shipment.Name \o "/environment/" \o shipment.Env
          \o "/container/" \o shipment.Container

\* POST <url>/envVars: 201 unless the request fails or the key already exists.
createKey(rem, p, url, fail) ==
  LET ok == ~fail /\ p.Name \notin DOMAIN rem[url]
  IN [ok |-> ok,
      rem |-> IF ok THEN [rem EXCEPT ![url] = Put(@, p.Name, [value |-> p.Value, vType |-> p.Type])]
              ELSE rem,
      req |-> Req("POST", url, p.Name, p.Value, p.Type, ok)]

\* PUT <url>/envVar/<name>: 200 unless the request fails or the key is missing.
updateKey(rem, p, url, fail) ==
  LET ok == ~fail /\ p.Name \in DOMAIN rem[url]
  IN [ok |-> ok,
      rem |-> IF ok THEN [rem EXCEPT ![url] = Put(@, p.Name, [value |-> p.Value, vType |-> p.Type])]
              ELSE rem,
      req |-> Req("PUT", url, p.Name, p.Value, p.Type, ok)]

\* DELETE <url>/envVar/<key>: the backend's answer for a key it does not hold is
\* its own (absentOk); a 200 for a key it holds removes it.
deleteKey(rem, key, url, fail, absentOk) ==
  LET ok == ~fail /\ (key \in DOMAIN rem[url] \/ absentOk)
  IN [ok |-> ok,
      rem |-> IF ok THEN [rem EXCEPT ![url] = Drop(@, key)] ELSE rem,
      req |-> Req("DELETE", url, key, "", "", ok)]

\* GET the shipment environment and keep the env vars of the session's container.
getHarborKeys(rem, shipment, fail) ==
  [ok |-> ~fail,
   keys |-> IF fail THEN EmptyMap ELSE rem[buildURL(shipment)],
   req |-> Req("GET", buildURL(shipment), "", "", "", ~fail)]

\* ------------------------------------------------------------------- time
\* time.Now().UTC().String() renders with modifiedLayout; time.Parse reads it back.
TimeString(t) == "2024-01-0" \o ToString(t) \o " 00:00:00 +0000 UTC"
\* The same instant written with all nine digits of the fractional second.
TimeStringFrac(t) == "2024-01-0" \o ToString(t) \o " 00:00:00.000000000 +0000 UTC"
\* time.Parse(modifiedLayout, s): the fractional second may be there or not;
\* any other text is an error.
TimeParse(s) ==
  IF \E t \in 1..9 : s \in {TimeString(t), TimeStringFrac(t)}
  THEN [ok |-> TRUE, t |-> CHOOSE t \in 1..9 : s \in {TimeString(t), TimeStringFrac(t)}]
  ELSE [ok |-> FALSE, t |-> NoTime]

\* ------------------------------------------------------------- file contents
\* A .env file: a sequence of lines <<key, value>>.
Line(k, v) == <<k, v>>
\* gotenv.Parse: the map of the lines, a later line of a key replacing an earlier one.
gotenvParse(lines) ==
  [k \in {lines[i][1] : i \in DOMAIN lines} |->
     lines[CHOOSE i \in DOMAIN lines :
             lines[i][1] = k /\ \A j \in DOMAIN lines : lines[j][1] = k => j <= i][2]]

\* ------------------------------------------------------------ HarborStore
isEnvVarType(t) == t \in {envTypeBasic, envTypeDiscover, envTypeHidden}

\* A classification whose default is "discover".
keyTypeOf_defaultDiscover(file_Data, prefixedKey) ==
  IF prefixedKey \in DOMAIN file_Data /\ file_Data[prefixedKey] # envVarType
  THEN file_Data[prefixedKey]
  ELSE envTypeDiscover

\* A classification that forgets the stored one.
keyTypeOf_alwaysHidden(file_Data, prefixedKey) == envTypeHidden

\* Push, the classification of one local key: the stored one unless it is the
\* generic marker, "hidden" otherwise.
keyTypeOf(file_Data, prefixedKey) ==
  IF prefixedKey \in DOMAIN file_Data /\ file_Data[prefixedKey] # envVarType
  THEN file_Data[prefixedKey]
  ELSE envTypeHidden

\* Push, one iteration of the upsert loop: create, on failure update, on failure return.
upsertKey(st, file_Data, localKeys, url, key, fail) ==
  LET prefixedKey == addEnvVarPrefix(key)
      keyType == keyTypeOf(file_Data, prefixedKey)
      p == [Name |-> key, Value |-> localKeys[key], Type |-> keyType]
      c == createKey(st.rem, p, url, fail)
      u == updateKey(st.rem, p, url, fail)
  IN IF c.ok
     THEN [rem |-> c.rem, data |-> Put(st.data, prefixedKey, keyType),
           log |-> Append(st.log, c.req), err |-> Nil]
     ELSE IF u.ok
     THEN [rem |-> u.rem, data |-> Put(st.data, prefixedKey, keyType),
           log |-> st.log \o <<c.req, u.req>>, err |-> Nil]
     ELSE [rem |-> st.rem, data |-> st.data,
           log |-> st.log \o <<c.req, u.req>>, err |-> ErrHTTP]

RECURSIVE upsertLoop(_, _, _, _, _, _)
\* Push, the loop over localKeys in the map's order; failKey is the key whose
\* create and update the backend both reject ("" for none).
upsertLoop(st, file_Data, localKeys, url, order, failKey) ==
  IF order = <<>> THEN st
  ELSE LET st2 == upsertKey(st, file_Data, localKeys, url, Head(order), Head(order) = failKey)
       IN IF st2.err # Nil THEN st2
          ELSE upsertLoop(st2, file_Data, localKeys, url, Tail(order), failKey)

\* A deletion test that leaves the local keys out.
mustDelete_owned(file_Data, localKeys, key) == addEnvVarPrefix(key) \in DOMAIN file_Data

\* A deletion test that leaves the ownership check out.
mustDelete_notLocal(file_Data, localKeys, key) == key \notin DOMAIN localKeys

\* Push, the test of the deletion loop: a listed key this file owned and no longer holds.
mustDelete(file_Data, localKeys, key) ==
  addEnvVarPrefix(key) \in DOMAIN file_Data /\ key \notin DOMAIN localKeys

RECURSIVE deleteLoop(_, _, _, _, _, _)
\* Push, the loop over harborKeys in the map's order, returning on the first failed delete.
deleteLoop(st, file_Data, localKeys, url, order, failKey) ==
  IF order = <<>> THEN st
  ELSE LET key == Head(order)
           d == deleteKey(st.rem, key, url, key = failKey, FALSE)
       IN IF mustDelete(file_Data, localKeys, key)
          THEN IF d.ok
               THEN deleteLoop([st EXCEPT !.rem = d.rem, !.log = Append(@, d.req)],
                               file_Data, localKeys, url, Tail(order), failKey)
               ELSE [st EXCEPT !.log = Append(@, d.req), !.err = ErrHTTP]
          ELSE deleteLoop(st, file_Data, localKeys, url, Tail(order), failKey)

\* Push, the local keys: the parsed file plus the last-modified sentinel.
PushLocalKeys(fileBytes, now) ==
  Put(gotenvParse(fileBytes), modifiedToken, TimeString(now))

\* A Push that lists and deletes whatever the upsert loop returned.
Push_noEarlyReturn(s, rem, file_Data, fileBytes, now, order, failKey, listFail, delOrder, delFailKey) ==
  LET data == (shipmentToken :> s.Shipment.Name) @@ (containerToken :> s.Shipment.Container)
                @@ (envToken :> s.Shipment.Env)
      localKeys == PushLocalKeys(fileBytes, now)
      up == upsertLoop([rem |-> rem, data |-> data, log |-> <<>>, err |-> Nil],
                       file_Data, localKeys, buildURL(s.Shipment), order, failKey)
      g == getHarborKeys(up.rem, s.Shipment, listFail)
  IN deleteLoop([up EXCEPT !.log = Append(@, g.req)], file_Data, localKeys,
                buildURL(s.Shipment), delOrder, delFailKey)

\* HarborStore.Push. order and delOrder are the iteration orders of localKeys and
\* of harborKeys; failKey, listFail and delFailKey are the backend's rejections.
Push(s, rem, file_Data, fileBytes, now, order, failKey, listFail, delOrder, delFailKey) ==
  LET data == (shipmentToken :> s.Shipment.Name) @@ (containerToken :> s.Shipment.Container)
                @@ (envToken :> s.Shipment.Env)
      localKeys == PushLocalKeys(fileBytes, now)
      url == buildURL(s.Shipment)
      up == upsertLoop([rem |-> rem, data |-> data, log |-> <<>>, err |-> Nil],
                       file_Data, localKeys, url, order, failKey)
      g == getHarborKeys(up.rem, s.Shipment, listFail)
      listed == [up EXCEPT !.log = Append(@, g.req)]
  IN IF up.err # Nil THEN up
     ELSE IF ~g.ok THEN [listed EXCEPT !.err = ErrHTTP]
     ELSE deleteLoop(listed, file_Data, localKeys, url, delOrder, delFailKey)

\* An ownership test that looks the remote name up without its prefix.
pullClaims_unprefixed(file_Data, key) == key \in DOMAIN file_Data

\* An ownership test that takes every remote key for the file's.
pullClaims_any(file_Data, key) == TRUE

\* Pull, the ownership test: the key has a prefixed entry in file.Data.
pullClaims(file_Data, key) == addEnvVarPrefix(key) \in DOMAIN file_Data

RECURSIVE pullLines(_, _, _)
\* Pull, the loop over the listed keys in the map's order.
pullLines(keys, file_Data, order) ==
  IF order = <<>> THEN <<>>
  ELSE LET key == Head(order)
           rest == pullLines(keys, file_Data, Tail(order))
       IN IF key = modifiedToken THEN rest
          ELSE IF pullClaims(file_Data, key)
               THEN <<Line(key, keys[key].value)>> \o rest
               ELSE rest

\* A LastModified that is always the current time.
pullModified_now(keys, now) == now

\* Pull, the LastModified attribute: the parsed sentinel, or now.
pullModified(keys, now) ==
  IF modifiedToken \in DOMAIN keys /\ TimeParse(keys[modifiedToken].value).ok
  THEN TimeParse(keys[modifiedToken].value).t
  ELSE now

\* HarborStore.Pull.
Pull(s, rem, file_Data, now, listFail, order) ==
  LET g == getHarborKeys(rem, s.Shipment, listFail)
  IN IF ~g.ok
     THEN [body |-> <<>>, attr |-> NoTime, err |-> ErrHTTP, log |-> <<g.req>>]
     ELSE [body |-> pullLines(g.keys, file_Data, order),
           attr |-> pullModified(g.keys, now), err |-> Nil, log |-> <<g.req>>]

\* Purge, the file.Data entries it issues a delete for.
purgeEntries(file_Data) == {k \in DOMAIN file_Data : isEnvVarType(file_Data[k])}

\* Purge, the name it asks the backend to delete for the file.Data entry key.
purgeTarget(key) == key

RECURSIVE purgeLoop(_, _, _, _, _)
\* Purge, the loop over the entries in the map's order, returning on the first failed delete.
purgeLoop(st, url, order, failKey, absentOk) ==
  IF order = <<>> THEN st
  ELSE LET d == deleteKey(st.rem, purgeTarget(Head(order)), url, Head(order) = failKey, absentOk)
       IN IF d.ok
          THEN purgeLoop([st EXCEPT !.rem = d.rem, !.log = Append(@, d.req)],
                         url, Tail(order), failKey, absentOk)
          ELSE [st EXCEPT !.log = Append(@, d.req), !.err = ErrHTTP]

\* HarborStore.Purge.
Purge(s, rem, file_Data, order, failKey, absentOk) ==
  purgeLoop([rem |-> rem, log |-> <<>>, err |-> Nil], buildURL(s.Shipment), order, failKey, absentOk)

\* ------------------------------------------------------------ HarborStore.Pre
authURL == "http://auth.services.dmtio.net"
NoAuth == [User |-> "", Token |-> ""]
NoShipment == [Name |-> "", Container |-> "", Env |-> ""]
Prompt(name, answer) == Req("PROMPT", "", name, answer, "", TRUE)
VaultSet(key, value, ok) == Req("VSET", "", key, value, "", ok)

\* cv.Get: the cached value, or an error when the vault holds none.
vaultGet(cv, key) == IF key \in DOMAIN cv THEN [err |-> Nil, value |-> cv[key]]
                     ELSE [err |-> "not found", value |-> ""]

\* A vault that forgets what it is given.
cvSet_dropped(cv, key, value, ok) == cv

\* cv.Set: the vault with the value stored under the key, unless it fails.
cvSet(cv, key, value, ok) == IF ok THEN Put(cv, key, value) ELSE cv

\* Pre, the authentication part. in.isAuth is the backend's answer to
\* IsAuthenticated, in.login the result of Login, in.user the prompted login id,
\* in.setUserOk and in.setTokenOk the vault's answers to Set. done: Pre returns here.
preAuth(cv, in) ==
  LET user0 == IF vaultGet(cv, userToken).err = Nil THEN vaultGet(cv, userToken).value ELSE ""
      token0 == IF vaultGet(cv, tokenToken).err = Nil THEN vaultGet(cv, tokenToken).value ELSE ""
      asked == Len(token0) > 0 /\ Len(user0) > 0
      isAuth == asked /\ in.isAuth
      log0 == IF asked THEN <<Req("AUTH", authURL, user0, token0, "", in.isAuth)>> ELSE <<>>
      log1 == log0 \o <<Prompt(userToken, in.user), Prompt(passToken, ""),
                        Req("LOGIN", authURL, in.user, in.login.token, "",
                            in.login.success /\ in.login.err = Nil)>>
      log2 == Append(log1, VaultSet(userToken, in.user, in.setUserOk))
      log3 == Append(log2, VaultSet(tokenToken, in.login.token, in.setTokenOk))
      cv2 == cvSet(cv, userToken, in.user, in.setUserOk)
      cv3 == cvSet(cv2, tokenToken, in.login.token, in.setTokenOk)
  IN IF isAuth
     THEN [done |-> FALSE, err |-> Nil, Auth |-> [User |-> user0, Token |-> token0],
           cv |-> cv, log |-> log0, authed |-> TRUE]
     ELSE IF in.login.err # Nil \/ ~in.login.success
     THEN [done |-> TRUE, err |-> in.login.err, Auth |-> [User |-> in.user, Token |-> token0],
           cv |-> cv, log |-> log1, authed |-> FALSE]
     ELSE IF ~in.setUserOk
     THEN [done |-> TRUE, err |-> "vault", Auth |-> [User |-> in.user, Token |-> token0],
           cv |-> cv2, log |-> log2, authed |-> FALSE]
     ELSE IF ~in.setTokenOk
     THEN [done |-> TRUE, err |-> "vault", Auth |-> [User |-> in.user, Token |-> token0],
           cv |-> cv3, log |-> log3, authed |-> FALSE]
     ELSE [done |-> FALSE, err |-> Nil, Auth |-> [User |-> in.user, Token |-> in.login.token],
           cv |-> cv3, log |-> log3, authed |-> TRUE]

\* Pre, one coordinate: the value bound in file.Data, or the user's answer.
preCoord(file_Data, token, answer) ==
  IF token \in DOMAIN file_Data
  THEN [value |-> file_Data[token], log |-> <<>>]
  ELSE [value |-> answer, log |-> <<Prompt(token, answer)>>]

\* harborauth.NewAuthClient: an error for an unusable URL only.
NewAuthClient(url) == IF Len(url) = 0 THEN "invalid url" ELSE Nil

\* HarborStore.Pre on the adapter whose fields are s.
Pre(s, file_Data, cv, in) ==
  LET a == preAuth(cv, in)
      ship == preCoord(file_Data, shipmentToken, in.ship)
      cont == preCoord(file_Data, containerToken, in.cont)
      env == preCoord(file_Data, envToken, in.env)
  IN IF NewAuthClient(authURL) # Nil
     THEN [s |-> s, cv |-> cv, err |-> NewAuthClient(authURL), log |-> <<>>, authed |-> FALSE]
     ELSE IF a.done
     THEN [s |-> [Auth |-> a.Auth, Shipment |-> NoShipment], cv |-> a.cv, err |-> a.err,
           log |-> a.log, authed |-> a.authed]
     ELSE [s |-> [Auth |-> a.Auth,
                  Shipment |-> [Name |-> ship.value, Container |-> cont.value, Env |-> env.value]],
           cv |-> a.cv, err |-> Nil, log |-> a.log \o ship.log \o cont.log \o env.log,
           authed |-> a.authed]

\* ------------------------------------------------------------------ Select
EnvFeature == "env"
JSONFeature == "json"
harborName == "harbor"
\* The adapter's eligibility for a file type: Harbor handles .env files.
SupportsFileType(store, type) == store = harborName /\ type = EnvFeature

RECURSIVE supportedStores(_, _, _)
\* Select, the comma-separated names of the adapters that support the file's type,
\* in the registry's iteration order.
supportedStores(reg, order, type) ==
  IF order = <<>> THEN ""
  ELSE LET rest == supportedStores(reg, Tail(order), type)
       IN IF SupportsFileType(reg[Head(order)], type)
          THEN IF Len(rest) = 0 THEN Head(order) ELSE Head(order) \o "," \o rest
          ELSE rest

\* A resolution that initialises the adapter before it looks the name up.
resolve_preFirst(reg, name, file_Store, s, file_Data, cv, in, log0) ==
  LET pre == Pre(s, file_Data, cv, in)
      found == name \in DOMAIN reg
  IN [store |-> IF found THEN reg[name] ELSE NoStore,
      err |-> IF found THEN pre.err ELSE ErrStoreNotFound, s |-> pre.s, cv |-> pre.cv,
      file_Store |-> file_Store, reg |-> reg,
      log |-> log0 \o <<Req("PRE", "", harborName, "", "", pre.err = Nil)>> \o pre.log,
      authed |-> pre.authed]

\* Select, the resolution of a name: the registered adapter after its Pre, or
\* ErrStoreNotFound.
resolve(reg, name, file_Store, s, file_Data, cv, in, log0) ==
  LET pre == Pre(s, file_Data, cv, in)
  IN IF name \in DOMAIN reg
     THEN [store |-> reg[name], err |-> pre.err, s |-> pre.s, cv |-> pre.cv,
           file_Store |-> file_Store, reg |-> reg,
           log |-> log0 \o <<Req("PRE", "", reg[name], "", "", pre.err = Nil)>> \o pre.log,
           authed |-> pre.authed]
     ELSE [store |-> NoStore, err |-> ErrStoreNotFound, s |-> s, cv |-> cv,
           file_Store |-> file_Store, reg |-> reg, log |-> log0, authed |-> FALSE]

\* A Select that asks the user whatever the file's saved binding.
Select_ignoreBinding(file_Store, file_Type, reg, s, file_Data, cv, val, regOrder, in) ==
  resolve(reg, val, file_Store, s, file_Data, cv, in,
          <<Req("PROMPT", "", "Remote Store", val, supportedStores(reg, regOrder, file_Type), TRUE)>>)

\* Select. val is the user's answer to the "Remote Store" prompt, regOrder the
\* registry's iteration order; file.Store is left as it is.
Select(file_Store, file_Type, reg, s, file_Data, cv, val, regOrder, in) ==
  IF Len(file_Store) > 0
  THEN resolve(reg, file_Store, file_Store, s, file_Data, cv, in, <<>>)
  ELSE resolve(reg, val, file_Store, s, file_Data, cv, in,
               <<Req("PROMPT", "", "Remote Store", val, supportedStores(reg, regOrder, file_Type), TRUE)>>)

\* ------------------------------------------------------------ environment
Users == {"alice"}
ShipVals == {"app"}
ContVals == {"web"}
EnvVals == {"dev"}
StoreAnswers == {harborName, "unknown"}
LoginOutcomes ==
  {[token |-> "tok-new", success |-> TRUE, err |-> Nil],
   [token |-> "", success |-> FALSE, err |-> "login failed"],
   [token |-> "", success |-> FALSE, err |-> Nil]}
PreInputs ==
  [isAuth : BOOLEAN, user : Users, login : LoginOutcomes,
   setUserOk : BOOLEAN, setTokenOk : BOOLEAN, ship : ShipVals, cont : ContVals, env : EnvVals]

AppShipment == [Name |-> "app", Container |-> "web", Env |-> "dev"]
\* A shipment whose name is the word of a classification.
HiddenShipment == [Name |-> envTypeHidden, Container |-> "web", Env |-> "dev"]
Urls == {buildURL(c) : c \in {NoShipment, HiddenShipment} \cup
           {[Name |-> n, Container |-> c, Env |-> e] : n \in ShipVals, c \in ContVals, e \in EnvVals}}
AllNames == Names \cup {modifiedToken}
\* The .env files: every assignment of values to a set of key names, one line per key.
Contents ==
  UNION {{[i \in 1..Cardinality(S) |->
             Line(o[i], f[o[i]])] : f \in [S -> Vals], o \in {CHOOSE q \in Orders(S) : TRUE}}
         : S \in SUBSET Names}

NoRet == [op |-> "none", store |-> NoStore, err |-> Nil, data |-> EmptyMap, body |-> <<>>,
          attr |-> NoTime, authed |-> FALSE, after |-> "none", afterErr |-> Nil,
          before |-> <<>>, now |-> NoTime, since |-> NoTime]
CoordData == (shipmentToken :> "app") @@ (containerToken :> "web") @@ (envToken :> "dev")

\* ------------------------------------------------------------------ actions
\* What a Select call that returned r leaves behind.
SelectReturns(r) ==
  /\ session' = r.s
  /\ vault' = r.cv
  /\ fileStore' = r.file_Store
  /\ stores' = r.reg
  /\ log' = r.log
  /\ ret' = [NoRet EXCEPT !.op = "Select", !.store = r.store, !.err = r.err,
                          !.authed = r.authed, !.after = ret.op, !.afterErr = ret.err,
                          !.before = ret.body]
  /\ UNCHANGED <<fileType, fileData, remote, left>>

\* One Select call on the file, the adapter's Pre included.
SelectCall ==
  \E val \in StoreAnswers, regOrder \in Orders(DOMAIN stores), in \in PreInputs :
    SelectReturns(Select(fileStore, fileType, stores, session, fileData, vault, val, regOrder, in))

\* The command is over and the next one may start: what the last call returned is
\* dropped, and only its name and error are remembered.
Idle == ret.op \in {"none", "Adopt", "Done"}

\* The iteration orders of a map with the keys S that differ in what the loop
\* does: the keys that pass its test (T) in every order, the others after them.
LoopOrders(S, T) ==
  {o \o (CHOOSE q \in Orders(S \ T) : TRUE) : o \in Orders(S \cap T)}

\* One Push call with some file contents, at some time, under some backend answers:
\* failKey is the local key whose create and update both fail, order the keys the
\* upsert loop visits up to it, delFailKey the key whose delete fails ("": none).
PushCall ==
  /\ Idle
  /\ left > 0
  /\ \E fileBytes \in Contents, now \in Times :
       LET localKeys == PushLocalKeys(fileBytes, now)
           url == buildURL(session.Shipment)
           listed == DOMAIN remote[url] \cup DOMAIN localKeys
           doomed == {k \in listed : mustDelete(fileData, localKeys, k)}
       IN \E failKey \in DOMAIN localKeys \cup {""} :
          \E visited \in (IF failKey = "" THEN {DOMAIN localKeys}
                          ELSE SUBSET (DOMAIN localKeys \ {failKey})) :
          \E head \in Orders(visited) :
          \E listFail \in (IF failKey = "" THEN BOOLEAN ELSE {FALSE}) :
          \E delOrder \in (IF failKey = "" /\ ~listFail THEN LoopOrders(listed, doomed)
                           ELSE {<<>>}) :
          \E delFailKey \in (Range(delOrder) \cap doomed) \cup {""} :
            LET order == IF failKey = "" THEN head ELSE Append(head, failKey)
                r == Push(session, remote, fileData, fileBytes, now, order, failKey,
                          listFail, delOrder, delFailKey)
            IN /\ remote' = r.rem
               /\ log' = r.log
               /\ ret' = [NoRet EXCEPT !.op = "Push", !.store = harborName, !.err = r.err,
                                       !.data = r.data, !.body = fileBytes, !.attr = now,
                                       !.after = ret.op, !.afterErr = ret.err,
                                       !.before = ret.body]
  /\ left' = left - 1
  /\ UNCHANGED <<stores, fileStore, fileType, fileData, vault, session>>

\* The caller stores the metadata Push returned as the file's Data; the file's
\* contents stay the ones it pushed.
Adopt ==
  /\ ret.op = "Push"
  /\ fileData' = ret.data
  /\ ret' = [NoRet EXCEPT !.op = "Adopt", !.err = ret.err, !.after = ret.op, !.afterErr = ret.err,
                          !.body = IF ret.err = Nil THEN ret.body ELSE <<>>,
                          !.attr = IF ret.err = Nil THEN ret.attr ELSE NoTime]
  /\ log' = <<>>
  /\ UNCHANGED <<stores, fileStore, fileType, vault, session, remote, left>>

\* The caller drops what the call returned.
Done ==
  /\ ret.op \in {"Push", "Pull", "Purge"}
  /\ left > 0
  /\ ret' = [NoRet EXCEPT !.op = "Done", !.err = ret.err, !.after = ret.op, !.afterErr = ret.err]
  /\ log' = <<>>
  /\ UNCHANGED <<stores, fileStore, fileType, fileData, vault, session, remote, left>>

\* One Pull call.
PullCall ==
  /\ Idle
  /\ left > 0
  /\ \E now \in Times, listFail \in BOOLEAN,
        order \in Orders(DOMAIN remote[buildURL(session.Shipment)]) :
       LET r == Pull(session, remote, fileData, now, listFail, order)
       IN /\ log' = r.log
          /\ ret' = [NoRet EXCEPT !.op = "Pull", !.store = harborName, !.err = r.err,
                                  !.body = r.body, !.attr = r.attr,
                                  !.after = ret.op, !.afterErr = ret.err,
                                  !.before = ret.body, !.now = now, !.since = ret.attr]
  /\ left' = left - 1
  /\ UNCHANGED <<stores, fileStore, fileType, fileData, vault, session, remote>>

\* One Purge call.
PurgeCall ==
  /\ Idle
  /\ left > 0
  /\ \E order \in Orders(purgeEntries(fileData)), absentOk \in BOOLEAN :
     \E failKey \in Range(order) \cup {""} :
       LET r == Purge(session, remote, fileData, order, failKey, absentOk)
       IN /\ remote' = r.rem
          /\ log' = r.log
          /\ ret' = [NoRet EXCEPT !.op = "Purge", !.store = harborName, !.err = r.err,
                                  !.after = ret.op, !.afterErr = ret.err,
                                  !.before = ret.body]
  /\ left' = left - 1
  /\ UNCHANGED <<stores, fileStore, fileType, fileData, vault, session>>

\* ----------------------------------------------------------- specifications
Registry == (harborName :> harborName)
EmptyRemote == [u \in Urls |-> EmptyMap]
DataTypes == {envVarType, envTypeHidden, envTypeDiscover}

\* A catalog entry that was pushed before: its coordinates, the sentinel's
\* entry and some ownership entries.
LoadedData ==
  {CoordData @@ (addEnvVarPrefix(modifiedToken) :> envTypeHidden)
     @@ [k \in {addEnvVarPrefix(n) : n \in S} |-> f[k]] :
     S \in SUBSET Names, f \in [{addEnvVarPrefix(n) : n \in Names} -> DataTypes]}

\* A catalog entry that was pushed to the shipment named "hidden".
HiddenData ==
  {(shipmentToken :> envTypeHidden) @@ (containerToken :> "web") @@ (envToken :> "dev")
     @@ (addEnvVarPrefix(modifiedToken) :> envTypeHidden)
     @@ (addEnvVarPrefix(KeyNames[1]) :> envTypeHidden)}

\* A catalog entry with a key the user classified "basic".
BasicData ==
  {CoordData @@ (addEnvVarPrefix(modifiedToken) :> envTypeHidden)
     @@ (addEnvVarPrefix(KeyNames[1]) :> envTypeBasic)}

\* The values the sentinel may hold at a coordinate: what a Push wrote, the same
\* with its fractional second, and text that is no timestamp.
SentinelValues == {TimeString(1), TimeStringFrac(2), "yesterday"}

\* The key stores a coordinate may hold before the call.
LoadedStores ==
  {[k \in S |-> IF k = modifiedToken THEN [value |-> m, vType |-> envTypeHidden]
                ELSE [value |-> ValNames[1], vType |-> envTypeHidden]] :
     S \in SUBSET AllNames, m \in SentinelValues}

InitCommon ==
  /\ stores = Registry
  /\ ret = NoRet
  /\ log = <<>>

\* The calls followed from an initial state: MaxCalls for a new file and for a
\* catalog entry in step with the remote store (it holds the keys the entry owns
\* and the sentinel of a Push), one for the others.
Budget(data, st) ==
  IF /\ data = EmptyMap \/ DOMAIN st = {k \in AllNames : addEnvVarPrefix(k) \in DOMAIN data}
     /\ data \notin HiddenData \cup BasicData
     /\ modifiedToken \in DOMAIN st => st[modifiedToken].value = TimeString(1)
  THEN MaxCalls ELSE 1

\* The adapter after a successful Pre, a file that is new or was pushed before.
Init ==
  /\ InitCommon
  /\ fileStore = harborName
  /\ fileType = EnvFeature
  /\ vault = (userToken :> "alice") @@ (tokenToken :> "tok-new")
  /\ fileData \in LoadedData \cup HiddenData \cup BasicData \cup {EmptyMap}
  /\ session = [Auth |-> [User |-> "alice", Token |-> "tok-new"],
                Shipment |-> IF fileData \in HiddenData THEN HiddenShipment ELSE AppShipment]
  /\ \E st \in LoadedStores :
       /\ remote = [EmptyRemote EXCEPT ![buildURL(session.Shipment)] = st]
       /\ left = Budget(fileData, st)

Next == PushCall \/ Adopt \/ Done \/ PullCall \/ PurgeCall

Spec == Init /\ [][Next]_vars

\* The store selection on its own: a file with or without a saved binding, an
\* empty or a filled credential vault, an adapter that was not initialised yet.
SelectInit ==
  /\ InitCommon
  /\ fileStore \in {"", harborName, "unknown"}
  /\ fileType \in {EnvFeature, JSONFeature}
  /\ fileData \in {EmptyMap, CoordData}
  /\ vault \in {EmptyMap, (userToken :> "bob"),
                (userToken :> "bob") @@ (tokenToken :> "tok-old")}
  /\ session = [Auth |-> NoAuth, Shipment |-> NoShipment]
  /\ remote = EmptyRemote
  /\ left = MaxCalls

SelectNext == SelectCall

SelectSpec == SelectInit /\ [][SelectNext]_vars

\* ------------------------------------------------------------------ claims
\* What the formulas read off a call's request log and return values.
Url == buildURL(session.Shipment)
Store == remote[Url]
Owned(data) == {k \in AllNames : addEnvVarPrefix(k) \in DOMAIN data}
Upserted == {log[i].k : i \in {j \in DOMAIN log : log[j].m \in {"POST", "PUT"} /\ log[j].ok}}
Deleted == {log[i].k : i \in {j \in DOMAIN log : log[j].m = "DELETE" /\ log[j].ok}}
DeleteRequests == {log[i].k : i \in {j \in DOMAIN log : log[j].m = "DELETE"}}
\* The keys at the coordinate when Push listed them: those left and those it deleted.
Existing == DOMAIN Store \cup Deleted
PushedKeys == DOMAIN gotenvParse(ret.body)
PushOk == ret.op = "Push" /\ ret.err = Nil

\* C1 (as amended): a Push that returns without error has upserted every local key
\* and the CSTORE_MODIFIED sentinel and nothing else, and has deleted exactly the
\* keys that existed at the coordinate, had a prefixed entry in the old file.Data,
\* are not local keys and are not the sentinel.
C1_Reconciliation ==
  PushOk =>
    /\ Upserted = PushedKeys \cup {modifiedToken}
    /\ Deleted = {k \in Existing : k \in Owned(fileData) /\ k \notin PushedKeys /\ k # modifiedToken}
    /\ \A k \in PushedKeys \cup {modifiedToken} : k \in DOMAIN Store
    /\ \A k \in Deleted : k \notin DOMAIN Store

\* C1 as stated: the deleted keys are all the existing, previously owned keys that
\* are not in the local key set L, the sentinel among them.
C1_AsStated ==
  PushOk =>
    /\ Upserted = PushedKeys \cup {modifiedToken}
    /\ Deleted = {k \in Existing : k \in Owned(fileData) /\ k \notin PushedKeys}

\* A Push of {a} over a catalog entry that owned a and b: b is deleted, a upserted.
C1_Witness ==
  /\ PushOk
  /\ PushedKeys = {"a"}
  /\ {"a", "b"} \subseteq Owned(fileData)
  /\ Deleted = {"b"}
  /\ "a" \in Upserted

\* C2: a Push never updates or deletes a remote key that only another file's Data
\* references: a key at the coordinate whose prefixed entry is not in this
\* file's Data (the two Data key sets being disjoint, the other file's Data
\* names it), the sentinel included.
C2_Isolation ==
  [][(ret'.op = "Push" /\ ret.op # "Push") =>
       \A k \in DOMAIN remote[Url] \ Owned(fileData) :
         /\ k \in DOMAIN remote'[Url]
         /\ remote'[Url][k] = remote[Url][k]]_vars

\* C3: after a Purge that returns without error on a file whose Data a successful
\* Push produced, no key with a prefixed entry in file.Data is left at the
\* coordinate, and every delete request named a remote key of the file.
C3_PurgeRemovesOwned ==
  (ret.op = "Purge" /\ ret.err = Nil /\ ret.after = "Adopt" /\ ret.afterErr = Nil) =>
    /\ \A k \in Owned(fileData) : k \notin DOMAIN Store
    /\ DeleteRequests \subseteq Owned(fileData)

\* C4: the body of a successful Pull holds one line key=value for exactly the
\* remote keys with a prefixed entry in file.Data other than the sentinel, each
\* with the remote value.
C4_PullScoping ==
  (ret.op = "Pull" /\ ret.err = Nil) =>
    /\ Range(ret.body) = {Line(k, Store[k].value) :
                            k \in (DOMAIN Store \cap Owned(fileData)) \ {modifiedToken}}
    /\ Len(ret.body) = Cardinality((DOMAIN Store \cap Owned(fileData)) \ {modifiedToken})

\* A Pull at a coordinate that holds an owned key, a key of another file and the
\* sentinel, which file.Data claims too: the body is the owned key's line.
C4_Witness ==
  /\ ret.op = "Pull" /\ ret.err = Nil
  /\ {"a", "b", modifiedToken} \subseteq DOMAIN Store
  /\ Owned(fileData) = {"a", modifiedToken}
  /\ ret.body = <<Line("a", Store["a"].value)>>

\* C10: a successful Push upserts every local key whose prefixed entry in the old
\* file.Data holds a classification other than the generic marker with that
\* classification, and records it under the prefixed key in the returned metadata.
C10_ClassificationKept ==
  PushOk =>
    \A k \in (PushedKeys \cup {modifiedToken}) \cap Owned(fileData) :
      fileData[addEnvVarPrefix(k)] # envVarType =>
        /\ \E i \in DOMAIN log : /\ log[i].m \in {"POST", "PUT"} /\ log[i].ok
                                 /\ log[i].k = k /\ log[i].t = fileData[addEnvVarPrefix(k)]
        /\ Store[k].vType = fileData[addEnvVarPrefix(k)]
        /\ addEnvVarPrefix(k) \in DOMAIN ret.data
        /\ ret.data[addEnvVarPrefix(k)] = fileData[addEnvVarPrefix(k)]

\* The second of two consecutive Pushes, the first one's metadata adopted, keeps a
\* key "discover".
C10_Witness ==
  /\ PushOk
  /\ ret.after = "Adopt" /\ ret.afterErr = Nil
  /\ "a" \in PushedKeys
  /\ addEnvVarPrefix("a") \in DOMAIN fileData
  /\ fileData[addEnvVarPrefix("a")] = envTypeDiscover
  /\ ret.data[addEnvVarPrefix("a")] = envTypeDiscover

\* The local keys of a Push without a classification of their own in the old
\* file.Data: no prefixed entry, or the generic marker.
Unclassified ==
  {k \in PushedKeys \cup {modifiedToken} :
     k \notin Owned(fileData) \/ fileData[addEnvVarPrefix(k)] = envVarType}
PushedValue(k) == PushLocalKeys(ret.body, ret.attr)[k]

\* C11: a successful Push sends every local key that has no prefixed entry in the
\* old file.Data, or whose entry is the generic marker, with its local value and
\* the type "hidden", and records "hidden" under its prefixed key in the returned
\* metadata; no Push, failed ones included, sends a key as "discover" that the
\* old file.Data did not classify so.
C11_DefaultHidden ==
  /\ PushOk =>
       \A k \in Unclassified :
         /\ \E i \in DOMAIN log : /\ log[i].m \in {"POST", "PUT"} /\ log[i].ok /\ log[i].k = k
                                  /\ log[i].v = PushedValue(k) /\ log[i].t = envTypeHidden
         /\ Store[k] = [value |-> PushedValue(k), vType |-> envTypeHidden]
         /\ addEnvVarPrefix(k) \in DOMAIN ret.data
         /\ ret.data[addEnvVarPrefix(k)] = envTypeHidden
  /\ ret.op = "Push" =>
       /\ \A i \in DOMAIN log :
            (log[i].m \in {"POST", "PUT"} /\ log[i].t = envTypeDiscover) =>
               /\ log[i].k \in Owned(fileData)
               /\ fileData[addEnvVarPrefix(log[i].k)] = envTypeDiscover
       /\ \A k \in Owned(ret.data) :
            ret.data[addEnvVarPrefix(k)] = envTypeDiscover =>
               (k \in Owned(fileData) /\ fileData[addEnvVarPrefix(k)] = envTypeDiscover)

\* A Push of a=2 by a file with no entry for a, and one over the generic marker:
\* the remote a is 2 and hidden, and so is the returned entry.
C11_Witness ==
  /\ PushOk
  /\ "a" \in PushedKeys /\ "a" \notin Owned(fileData)
  /\ "b" \in PushedKeys /\ "b" \in Owned(fileData) /\ fileData[addEnvVarPrefix("b")] = envVarType
  /\ Store["a"] = [value |-> "2", vType |-> envTypeHidden]
  /\ ret.data[addEnvVarPrefix("a")] = envTypeHidden
  /\ ret.data[addEnvVarPrefix("b")] = envTypeHidden

\* The call follows a successful Push whose metadata the caller adopted.
AfterAdoptedPush == ret.after = "Adopt" /\ ret.afterErr = Nil

StorePrompt(l) == l # <<>> /\ l[1].m = "PROMPT" /\ l[1].k = "Remote Store"
StoreAnswer(l) == IF StorePrompt(l) THEN l[1].v ELSE ""
PreCalls(l) == Cardinality({i \in DOMAIN l : l[i].m = "PRE"})
NetworkCalls(l) ==
  {i \in DOMAIN l : l[i].m \in {"AUTH", "LOGIN", "GET", "POST", "PUT", "DELETE"}}
NotFound(r) == r.store = NoStore /\ r.err = ErrStoreNotFound

\* C5: a Select on a file whose non-empty Store names no registered adapter
\* returns (nil, ErrStoreNotFound) with no Pre, no prompt and no network call; a
\* Select on a file with an empty Store whose prompt is answered with a name that
\* is not registered returns the same, with no Pre and no network call.
C5_StoreNotFound ==
  [][/\ (fileStore # "" /\ fileStore \notin DOMAIN stores) =>
          (NotFound(ret') /\ log' = <<>>)
     /\ (fileStore = "" /\ StoreAnswer(log') \notin DOMAIN stores) =>
          (NotFound(ret') /\ PreCalls(log') = 0 /\ NetworkCalls(log') = {})]_vars

\* A Select on a file bound to "unknown" has returned ErrStoreNotFound.
C5_Witness ==
  /\ ret.op = "Select"
  /\ fileStore = "unknown"
  /\ NotFound(ret)
  /\ log = <<>>

\* C6: a Select that returns a store has called that adapter's Pre once, and the
\* Pre returned no error.
C6_NeverUninitialized ==
  (ret.op = "Select" /\ ret.store # NoStore) => (PreCalls(log) = 1 /\ ret.err = Nil)

\* C7: after a Select on a file with an empty Store has returned the adapter the
\* user chose, file.Store is that adapter's name.
C7_BindsChoice ==
  (ret.op = "Select" /\ StorePrompt(log) /\ ret.store # NoStore) => fileStore = ret.store

\* C8: a Select on a file whose Store names a registered adapter returns that
\* registry entry, shows no store prompt, calls Pre once and leaves file.Store
\* and the registry as they were, so that every later Select does the same.
C8_BindingStable ==
  [][(fileStore \in DOMAIN stores) =>
       (/\ ret'.store = stores[fileStore]
       /\ ~StorePrompt(log')
       /\ \A i \in DOMAIN log' : ~(log'[i].m = "PROMPT" /\ log'[i].k = "Remote Store")
       /\ PreCalls(log') = 1
       /\ fileStore' = fileStore
       /\ stores' = stores)]_vars

\* A second Select on a file bound to "harbor" has returned the Harbor adapter.
C8_Witness ==
  /\ ret.op = "Select" /\ ret.after = "Select"
  /\ fileStore = harborName
  /\ ret.store = stores[harborName]
  /\ PreCalls(log) = 1

\* C9: a Pre whose login did not succeed returns an error, and a Pre that returns
\* nil leaves a user and a token that the backend accepted in the session.
C9_PreFailsUnauthenticated ==
  (ret.op = "Select" /\ PreCalls(log) = 1) =>
    /\ (\E i \in DOMAIN log : log[i].m = "LOGIN" /\ ~log[i].ok) => ret.err # Nil
    /\ ret.err = Nil => (ret.authed /\ session.Auth.User # "" /\ session.Auth.Token # "")

\* The coordinate prompts of a Pre, and a Pre that went on to the coordinates.
CoordTokens == {shipmentToken, containerToken, envToken}
CoordPrompts(l) == {i \in DOMAIN l : l[i].m = "PROMPT" /\ l[i].k \in CoordTokens}
PreResolved(r, l) == r.op = "Select" /\ PreCalls(l) = 1 /\ r.err = Nil /\ r.authed

\* C13: a Pre that resolved the coordinates leaves all three in file.Data, with
\* the values it resolved (the prompted answers among them), and the Pre after it
\* on the same file shows no coordinate prompt.
C13_CoordinatesPersisted ==
  [][/\ PreResolved(ret', log') =>
          /\ CoordTokens \subseteq DOMAIN fileData'
          /\ fileData'[shipmentToken] = session'.Shipment.Name
          /\ fileData'[containerToken] = session'.Shipment.Container
          /\ fileData'[envToken] = session'.Shipment.Env
     /\ (PreResolved(ret, log) /\ PreResolved(ret', log')) => CoordPrompts(log') = {}]_vars

\* What the formulas read off the order of a Push's requests.
Upserts(l) == {i \in DOMAIN l : l[i].m \in {"POST", "PUT"}}
Deletes(l) == {i \in DOMAIN l : l[i].m = "DELETE"}
Listings(l) == {i \in DOMAIN l : l[i].m = "GET"}
UpsertFailed(l) == \E i \in DOMAIN l : l[i].m = "PUT" /\ ~l[i].ok

\* C14: in the requests of one Push an update of a key comes right after the
\* failed create of that key, every delete comes after all upserts and after
\* every local key was upserted; a Push whose create and update of a key both
\* fail returns the error at once, with no listing and no delete, and the keys it
\* upserted before are at the coordinate with the values it sent.
C14_FailureOrdering ==
  ret.op = "Push" =>
    /\ \A i \in DOMAIN log : log[i].m = "PUT" =>
          (i > 1 /\ log[i - 1].m = "POST" /\ log[i - 1].k = log[i].k /\ ~log[i - 1].ok)
    /\ \A i \in DOMAIN log : (log[i].m = "POST" /\ ~log[i].ok) =>
          (i < Len(log) /\ log[i + 1].m = "PUT" /\ log[i + 1].k = log[i].k)
    /\ \A d \in Deletes(log) : \A u \in Upserts(log) : u < d
    /\ Deletes(log) # {} => Upserted = PushedKeys \cup {modifiedToken}
    /\ UpsertFailed(log) =>
          /\ ret.err # Nil
          /\ log[Len(log)].m = "PUT" /\ ~log[Len(log)].ok
          /\ Listings(log) = {} /\ Deletes(log) = {}
          /\ \A k \in Upserted :
                /\ k \in DOMAIN Store
                /\ Store[k].value = PushedValue(k)
                /\ addEnvVarPrefix(k) \in DOMAIN ret.data
    /\ (ret.err # Nil /\ Listings(log) = {}) => UpsertFailed(log)

\* A Push of a, by a file that owned b, whose second upsert the backend rejected:
\* the first upsert stays and b is not deleted.
C14_Witness ==
  /\ ret.op = "Push" /\ ret.err # Nil
  /\ UpsertFailed(log)
  /\ Cardinality(Upserted) = 1
  /\ PushedKeys = {"a"}
  /\ \E k \in Owned(fileData) \cap DOMAIN Store : k \notin PushedKeys \cup {modifiedToken}

\* What the formulas read off a Pre's log: the credential prompts, the vault
\* writes, the backend's answer to IsAuthenticated and the login.
CredPrompts(l) == {i \in DOMAIN l : l[i].m = "PROMPT" /\ l[i].k \in {userToken, passToken}}
VaultWrites(l) == {i \in DOMAIN l : l[i].m = "VSET"}
Cached(cv) == /\ userToken \in DOMAIN cv /\ tokenToken \in DOMAIN cv
              /\ Len(cv[userToken]) > 0 /\ Len(cv[tokenToken]) > 0
Accepted(l) == \E i \in DOMAIN l : l[i].m = "AUTH" /\ l[i].ok
LoggedIn(l) == \E i \in DOMAIN l : l[i].m = "LOGIN" /\ l[i].ok
Entered(l) == l[CHOOSE i \in DOMAIN l : l[i].m = "LOGIN"]

C16_PurgeScope ==
  ret.op = "Purge" =>
    /\ \A i \in Deletes(log) :
          /\ log[i].k \notin CoordTokens
          /\ \E n \in AllNames : log[i].k = addEnvVarPrefix(n)
          /\ ~log[i].ok => (i = Len(log) /\ ret.err # Nil)
    /\ ret.err # Nil => (log # <<>> /\ ~log[Len(log)].ok)

\* C17: a Pull whose listing succeeded returns no error; its LastModified is the
\* timestamp parsed from the remote CSTORE_MODIFIED value when the key is there
\* and parses with the layout, and the current time when the key is missing or
\* does not parse; a Push leaves a sentinel that parses back to the time it
\* wrote, and the Pull after an adopted successful Push returns that time.
C17_PullLastModified ==
  /\ ret.op = "Pull" =>
       /\ (\E i \in Listings(log) : log[i].ok) => ret.err = Nil
       /\ ret.err = Nil =>
            ret.attr = IF modifiedToken \in DOMAIN Store /\ TimeParse(Store[modifiedToken].value).ok
                       THEN TimeParse(Store[modifiedToken].value).t
                       ELSE ret.now
       /\ (ret.err = Nil /\ AfterAdoptedPush) => ret.attr = ret.since
  /\ (ret.op = "Push" /\ modifiedToken \in Upserted) =>
       TimeParse(Store[modifiedToken].value) = [ok |-> TRUE, t |-> ret.attr]

\* A Pull, at a later time, after a Push the day before: LastModified is the day
\* of the Push.
C17_Witness ==
  /\ ret.op = "Pull" /\ ret.err = Nil /\ AfterAdoptedPush
  /\ ret.since = 1 /\ ret.now = 2
  /\ ret.attr = 1

\* C18: the body of a successful Pull that follows a successful Push of the
\* lines L, the Push's metadata adopted and nothing written in between, holds
\* the lines of L and no other: one line for each, none for the sentinel, for a
\* key of another file or for a key the Push deleted.
C18_RoundTrip ==
  (ret.op = "Pull" /\ ret.err = Nil /\ AfterAdoptedPush) =>
    /\ Range(ret.body) = Range(ret.before)
    /\ Len(ret.body) = Len(ret.before)
    /\ \A i \in DOMAIN ret.body : ret.body[i][1] # modifiedToken

\* A Pull after a Push of a=2 alone: the body is a=2, the sentinel at the
\* coordinate is left out.
C18_Witness ==
  /\ ret.op = "Pull" /\ ret.err = Nil /\ AfterAdoptedPush
  /\ ret.before = <<Line("a", "2")>>
  /\ ret.body = <<Line("a", "2")>>
  /\ modifiedToken \in DOMAIN Store

\* C19: the adapter a Select returns for a file with an empty Store, chosen at
\* the prompt, supports the file's type.
C19_EligibleAdapter ==
  (ret.op = "Select" /\ StorePrompt(log) /\ ret.store # NoStore) =>
    SupportsFileType(ret.store, fileType)

\* C20: when the caller adopts the metadata a Push returned, on error returns
\* too, every key of the file's contents that the file owned before and that is
\* still at the coordinate has a prefixed entry in the adopted file.Data.
C20_NoOrphans ==
  [][(ret.op = "Push" /\ ret'.op = "Adopt") =>
       \A k \in (Owned(fileData) \cap DOMAIN Store) \ {modifiedToken} :
         k \in Owned(fileData')]_vars

====
